---- MODULE Spec2Model ----
(***************************************************************************)
(* Model of fluidlab/instruments/modbus/unidrive_sp.py: the Value and      *)
(* StringValue features of the Unidrive SP drive (address derivation,      *)
(* scaling by a number of decimals, symbol tables, mode gating and the     *)
(* verification read of set) on top of a register transport.               *)
(*                                                                         *)
(* Python numbers are modelled exactly.  A number is a non-negative        *)
(* dyadic rational [bits, exp]: bits is its binary expansion, most         *)
(* significant bit first, without leading or trailing zeros, and exp is    *)
(* the weight (a power of two) of the first bit.  Floating-point results   *)
(* are rounded to 53 significant bits, ties to even, as IEEE-754 doubles   *)
(* are, so that the products and quotients of the code are the ones        *)
(* CPython computes.                                                       *)
(***************************************************************************)
EXTENDS Integers, Sequences, FiniteSets, TLC

\* ------------------------------------------------------------------------
\* Python arithmetic
\* ------------------------------------------------------------------------

\* Significant bits of a double.
MantissaBits == 53

Zero == [bits |-> <<>>, exp |-> 0]

\* Width of the limbs in which bit strings are multiplied.
LimbBits == 12

\* The positions of the one bits of a bit string.
Ones(bits) == {i \in 1..Len(bits) : bits[i] = 1}

\* The canonical form of the number with these bits: no leading zero (each
\* one dropped lowers the weight of the first bit), no trailing zero.
Norm(bits, exp) ==
  IF Ones(bits) = {} THEN Zero
  ELSE LET first == CHOOSE i \in Ones(bits) : \A j \in Ones(bits) : i <= j
           last  == CHOOSE i \in Ones(bits) : \A j \in Ones(bits) : i >= j
       IN  [bits |-> SubSeq(bits, first, last), exp |-> exp - (first - 1)]

\* Number of bits of a natural number below 2^30.
BitLength(n) == CHOOSE l \in 0..30 : n < 2^l /\ (l = 0 \/ n >= 2^(l - 1))

\* The low `width` bits of a natural number, most significant first.
FixedBits(n, width) == [i \in 1..width |-> (n \div 2^(width - i)) % 2]

\* Binary expansion of a natural number, most significant bit first.
IntBits(n) == FixedBits(n, BitLength(n))

RECURSIVE BitsInt(_)
\* The natural number with this binary expansion (a short one).
BitsInt(bits) ==
  IF bits = <<>> THEN 0
  ELSE 2 * BitsInt(SubSeq(bits, 1, Len(bits) - 1)) + bits[Len(bits)]

\* A Python int as a number.
FromInt(n) == Norm(IntBits(n), BitLength(n) - 1)

\* bits + 1 on a bit string that holds a zero.
Increment(bits) ==
  LET zeros == {i \in 1..Len(bits) : bits[i] = 0}
      z     == CHOOSE i \in zeros : \A j \in zeros : i >= j
  IN  [i \in 1..Len(bits) |-> IF i < z THEN bits[i] ELSE IF i = z THEN 1 ELSE 0]

\* Round a bit string that starts with 1 to MantissaBits bits, to nearest,
\* ties to even; sticky says that non-zero bits follow the string.
RoundDouble(bits, exp, sticky) ==
  IF Len(bits) <= MantissaBits THEN Norm(bits, exp)
  ELSE LET keep == SubSeq(bits, 1, MantissaBits)
           half == bits[MantissaBits + 1]
           rest == sticky \/ \E i \in (MantissaBits + 2)..Len(bits) : bits[i] = 1
           up   == half = 1 /\ (rest \/ keep[MantissaBits] = 1)
           ones == \A i \in 1..MantissaBits : keep[i] = 1
       IN  IF ~up THEN Norm(keep, exp)
           ELSE IF ones THEN Norm(<<1>>, exp + 1)
           ELSE Norm(Increment(keep), exp)

RECURSIVE Pow2Mod(_, _)
\* 2^i modulo p, by repeated squaring (p at most 1000).
Pow2Mod(i, p) ==
  IF i = 0 THEN 1 % p
  ELSE LET h == Pow2Mod(i \div 2, p)
       IN  (h * h * (IF i % 2 = 1 THEN 2 ELSE 1)) % p

\* Long division of rem by p (rem < p): the remainder left after i bits.
RemAfter(rem, p, i) == (rem * Pow2Mod(i, p)) % p

\* Long division of rem by p: the i-th bit after the binary point.
FracBit(rem, p, i) == IF 2 * RemAfter(rem, p, i - 1) >= p THEN 1 ELSE 0

\* float(n) / p for naturals n and p > 0: the correctly rounded quotient.
DivInt(n, p) ==
  LET whole == IntBits(n \div p)
      rem   == n % p
      lw    == Len(whole)
  IN  IF whole # <<>>
      THEN LET nf == MantissaBits + 1 - lw
           IN  RoundDouble(whole \o [i \in 1..nf |-> FracBit(rem, p, i)],
                           lw - 1, RemAfter(rem, p, nf) # 0)
      ELSE IF rem = 0 THEN Zero
      ELSE LET first == CHOOSE i \in 1..30 :
                          /\ FracBit(rem, p, i) = 1
                          /\ \A j \in 1..(i - 1) : FracBit(rem, p, j) = 0
           IN  RoundDouble([i \in 1..(MantissaBits + 1) |->
                              FracBit(rem, p, first + i - 1)],
                           -first, RemAfter(rem, p, first + MantissaBits) # 0)

RECURSIVE TimesLimbs(_, _, _, _)
\* The bits of (bits * p + carry) for a bit string of n whole limbs,
\* computed limb by limb from the least significant one.
TimesLimbs(bits, n, p, carry) ==
  IF n = 0 THEN IntBits(carry)
  ELSE LET lo == BitsInt(SubSeq(bits, (n - 1) * LimbBits + 1, n * LimbBits))
           t  == lo * p + carry
       IN  TimesLimbs(bits, n - 1, p, t \div 2^LimbBits)
             \o FixedBits(t % 2^LimbBits, LimbBits)

\* x * p for a number x and a natural p in 1..1000: the correctly rounded
\* product.  The last bit of the product weighs what the last bit of x does.
MulInt(x, p) ==
  IF x.bits = <<>> THEN Zero
  ELSE LET n     == (Len(x.bits) + LimbBits - 1) \div LimbBits
           pad   == n * LimbBits - Len(x.bits)
           prod  == TimesLimbs([i \in 1..pad |-> 0] \o x.bits, n, p, 0)
           first == CHOOSE i \in Ones(prod) : \A j \in Ones(prod) : i <= j
           lsb   == x.exp - (Len(x.bits) - 1)
       IN  RoundDouble(SubSeq(prod, first, Len(prod)),
                       lsb + (Len(prod) - first), FALSE)

\* int(x): truncation toward zero.
Trunc(x) ==
  IF x.bits = <<>> \/ x.exp < 0 THEN 0
  ELSE LET n == x.exp + 1
       IN  IF Len(x.bits) >= n THEN BitsInt(SubSeq(x.bits, 1, n))
           ELSE BitsInt(x.bits) * 2^(n - Len(x.bits))

\* 10 ** d.
Pow10(d) == IF d = 0 THEN 1 ELSE IF d = 1 THEN 10 ELSE IF d = 2 THEN 100 ELSE 1000

\* The Python value of the decimal literal n / 10^k (n for k = 0).
Dec(n, k) == DivInt(n, Pow10(k))

\* x < y.
Less(x, y) ==
  IF y.bits = <<>> THEN FALSE
  ELSE IF x.bits = <<>> THEN TRUE
  ELSE IF x.exp # y.exp THEN x.exp < y.exp
  ELSE LET bx(i) == IF i <= Len(x.bits) THEN x.bits[i] ELSE 0
           by(i) == IF i <= Len(y.bits) THEN y.bits[i] ELSE 0
           diff  == {i \in 1..(Len(x.bits) + Len(y.bits)) : bx(i) # by(i)}
       IN  /\ diff # {}
           /\ by(CHOOSE i \in diff : \A j \in diff : i <= j) = 1

\* The weight of the last bit of a number.
LastWeight(x) == x.exp - (Len(x.bits) - 1)

\* The bits of a number from the weight 2^top down to the weight 2^low.
Spread(x, top, low) ==
  [i \in 1..(top - low + 1) |->
     LET w == top - (i - 1)
     IN  IF w <= x.exp /\ w >= LastWeight(x) THEN x.bits[x.exp - w + 1]
         ELSE 0]

\* The n-th limb of a bit string of whole limbs.
Limb(bits, n) == BitsInt(SubSeq(bits, (n - 1) * LimbBits + 1, n * LimbBits))

RECURSIVE PlusLimbs(_, _, _, _)
\* The bits of a + b + carry for two bit strings of n whole limbs.
PlusLimbs(a, b, n, carry) ==
  IF n = 0 THEN IntBits(carry)
  ELSE LET t == Limb(a, n) + Limb(b, n) + carry
       IN  PlusLimbs(a, b, n - 1, t \div 2^LimbBits)
             \o FixedBits(t % 2^LimbBits, LimbBits)

RECURSIVE MinusLimbs(_, _, _, _)
\* The bits of a - b - borrow for two bit strings of n whole limbs, a >= b.
MinusLimbs(a, b, n, borrow) ==
  IF n = 0 THEN <<>>
  ELSE LET t == Limb(a, n) - Limb(b, n) - borrow
       IN  MinusLimbs(a, b, n - 1, IF t < 0 THEN 1 ELSE 0)
             \o FixedBits(IF t < 0 THEN t + 2^LimbBits ELSE t, LimbBits)

\* The correctly rounded number with these bits, the last one of weight
\* 2^low.
RoundBits(bits, low) ==
  IF Ones(bits) = {} THEN Zero
  ELSE LET first == CHOOSE i \in Ones(bits) : \A j \in Ones(bits) : i <= j
       IN  RoundDouble(SubSeq(bits, first, Len(bits)),
                       low + (Len(bits) - first), FALSE)

\* x + y, or x - y when minus (then x >= y): the correctly rounded result.
\* An operand more than 2 * MantissaBits binary orders below the other one
\* is lost in the rounding.
PlusMinus(x, y, minus) ==
  IF y.bits = <<>> THEN x
  ELSE IF x.bits = <<>> THEN y
  ELSE IF x.exp - y.exp > 2 * MantissaBits THEN x
  ELSE IF y.exp - x.exp > 2 * MantissaBits THEN y
  ELSE LET low == IF LastWeight(x) < LastWeight(y) THEN LastWeight(x)
                  ELSE LastWeight(y)
           max == IF x.exp > y.exp THEN x.exp ELSE y.exp
           n   == (max - low + LimbBits) \div LimbBits
           top == low + n * LimbBits - 1
           a   == Spread(x, top, low)
           b   == Spread(y, top, low)
       IN  RoundBits(IF minus THEN MinusLimbs(a, b, n, 0)
                     ELSE PlusLimbs(a, b, n, 0), low)

\* x + y.
Add(x, y) == PlusMinus(x, y, FALSE)

\* x - y for x >= y.
Sub(x, y) == PlusMinus(x, y, TRUE)

\* ------------------------------------------------------------------------
\* Python values
\* ------------------------------------------------------------------------

\* Python's None where a menu or a parameter (naturals) is expected.
None == -1

\* A value passed to or returned by a feature: a number, a string or None.
Num(x) == [kind |-> "num", num |-> x, sym |-> ""]
Sym(s) == [kind |-> "str", num |-> Zero, sym |-> s]
NoneValue == [kind |-> "None", num |-> Zero, sym |-> ""]

\* ------------------------------------------------------------------------
\* Feature descriptors
\* ------------------------------------------------------------------------

int_dict_mode == (1 :> "open_loop" @@ 2 :> "closed_loop" @@ 3 :> "servo" @@ 4 :> "regen")

\* The reference table with one symbol given to two raw values.
int_dict_ref_duplicate ==
  (0 :> "A1.A2" @@ 1 :> "A1.pr" @@ 2 :> "A2.pr" @@ 3 :> "preset" @@ 4 :> "pad" @@ 5 :> "pad")

int_dict_ref ==
  (0 :> "A1.A2" @@ 1 :> "A1.pr" @@ 2 :> "A2.pr" @@ 3 :> "preset" @@ 4 :> "pad" @@ 5 :> "Prc")

\* The table of a feature that has none.
NoDict == [r \in {} |-> ""]

\* The address without the shift from parameter numbers, which start at 1.
Adress_unshifted(menu, parameter) == 100 * menu + parameter

\* The address of the register of parameter menu.parameter.
Adress(menu, parameter) == 100 * menu + parameter - 1

\* What a constructor leaves: a descriptor (raised = "") or the exception it
\* raised.
Descriptor(class, name, decimals, mode, menu, parameter, int_dict) ==
  [raised |-> "", class |-> class, name |-> name,
   number_of_decimals |-> decimals, mode |-> mode, menu |-> menu,
   parameter |-> parameter, adress |-> Adress(menu, parameter),
   int_dict |-> int_dict]

Raised(class, exc, menu, parameter) ==
  [raised |-> exc, class |-> class, name |-> "", number_of_decimals |-> 0,
   mode |-> "", menu |-> menu, parameter |-> parameter, adress |-> None,
   int_dict |-> NoDict]

\* Value.__init__ that keeps the default mode whatever mode it is given.
Value_ungated(name, number_of_decimals, mode, menu, parameter) ==
  IF menu = None \/ parameter = None
  THEN Raised("Value", "ValueError", menu, parameter)
  ELSE Descriptor("Value", name, number_of_decimals, "all", menu, parameter,
                  NoDict)

\* Value.__init__: refuses a missing menu or parameter.
Value(name, number_of_decimals, mode, menu, parameter) ==
  IF menu = None \/ parameter = None
  THEN Raised("Value", "ValueError", menu, parameter)
  ELSE Descriptor("Value", name, number_of_decimals, mode, menu, parameter, NoDict)

\* StringValue.__init__: no test of menu and parameter; the arithmetic of
\* the address raises TypeError on None.
StringValue(name, int_dict, menu, parameter, mode) ==
  IF menu = None \/ parameter = None
  THEN Raised("StringValue", "TypeError", menu, parameter)
  ELSE Descriptor("StringValue", name, 0, mode, menu, parameter, int_dict)

\* The list with the name of one descriptor given to the next one as well.
FeatureList_duplicate ==
  << StringValue("mode", int_dict_mode, 0, 48, "all"),
     StringValue("_reference_selection", int_dict_ref, 0, 5, "all"),
     Value("_unlocked", 0, "all", 6, 15),
     Value("_rotate", 0, "all", 6, 34),
     Value("_speed", 1, "all", 0, 24),
     Value("_min_frequency_open_loop", 1, "open_loop", 0, 1),
     Value("_min_speed_closed_loop", 1, "closed_loop", 0, 1),
     Value("_min_speed_servo", 1, "servo", 0, 1),
     Value("acceleration_time", 1, "all", 0, 3),
     Value("deceleration_time", 1, "all", 0, 4),
     Value("_number_of_pairs_of_poles", 0, "all", 0, 42),
     Value("_rated_voltage", 0, "all", 0, 44),
     Value("_rated_speed_open_loop", 0, "open_loop", 0, 45),
     Value("_rated_speed_open_loop", 0, "closed_loop", 0, 45),
     Value("_thermal_time_constant_servo", 0, "servo", 0, 45),
     Value("_rated_current_open_loop", 2, "open_loop", 0, 46),
     Value("_rated_current_closed_loop", 2, "closed_loop", 0, 46),
     Value("_rated_frequency_open_loop", 1, "open_loop", 0, 47),
     Value("_rated_frequency_closed_loop", 1, "closed_loop", 0, 47) >>

\* The list given to UnidriveSP._build_class_with_features.
FeatureList ==
  << StringValue("mode", int_dict_mode, 0, 48, "all"),
     StringValue("_reference_selection", int_dict_ref, 0, 5, "all"),
     Value("_unlocked", 0, "all", 6, 15),
     Value("_rotate", 0, "all", 6, 34),
     Value("_speed", 1, "all", 0, 24),
     Value("_min_frequency_open_loop", 1, "open_loop", 0, 1),
     Value("_min_speed_closed_loop", 1, "closed_loop", 0, 1),
     Value("_min_speed_servo", 1, "servo", 0, 1),
     Value("acceleration_time", 1, "all", 0, 3),
     Value("deceleration_time", 1, "all", 0, 4),
     Value("_number_of_pairs_of_poles", 0, "all", 0, 42),
     Value("_rated_voltage", 0, "all", 0, 44),
     Value("_rated_speed_open_loop", 0, "open_loop", 0, 45),
     Value("_rated_speed_closed_loop", 0, "closed_loop", 0, 45),
     Value("_thermal_time_constant_servo", 0, "servo", 0, 45),
     Value("_rated_current_open_loop", 2, "open_loop", 0, 46),
     Value("_rated_current_closed_loop", 2, "closed_loop", 0, 46),
     Value("_rated_frequency_open_loop", 1, "open_loop", 0, 47),
     Value("_rated_frequency_closed_loop", 1, "closed_loop", 0, 47) >>

\* The features of the device class.
Features == {FeatureList[i] : i \in 1..Len(FeatureList)}

\* driver.<name>: the feature the builder binds to this name.
Feature(name) == CHOOSE f \in Features : f.name = name

\* The mode feature declared with a required mode.
ModeFeature_gated == [Feature("mode") EXCEPT !.mode = "open_loop"]

\* driver.mode, the feature a mode check reads.
ModeFeature == Feature("mode")

\* ------------------------------------------------------------------------
\* Conversions between raw and logical values
\* ------------------------------------------------------------------------

\* Value.get: the raw integer itself, or float(raw) / 10 ** decimals.
Value_logical(f, raw) ==
  IF f.number_of_decimals = 0 THEN Num(FromInt(raw))
  ELSE Num(DivInt(raw, Pow10(f.number_of_decimals)))

\* Value.set: int(value), or int(value * 10 ** decimals).
Value_raw_int(f, value) ==
  IF f.number_of_decimals = 0 THEN Trunc(value.num)
  ELSE Trunc(MulInt(value.num, Pow10(f.number_of_decimals)))

\* Int16StringValue: whether a raw value has a symbol, and the symbol.
HasSymbol(f, raw) == raw \in DOMAIN f.int_dict
Symbol(f, raw) == Sym(f.int_dict[raw])

\* Int16StringValue: whether a symbol has a raw value, and the raw value
\* (the table is read in order, a later entry replaces an earlier one).
HasRaw(f, value) == \E r \in DOMAIN f.int_dict : f.int_dict[r] = value.sym
RawOfSymbol(f, value) ==
  CHOOSE r \in DOMAIN f.int_dict :
    /\ f.int_dict[r] = value.sym
    /\ \A q \in DOMAIN f.int_dict : f.int_dict[q] = value.sym => q <= r

\* instr_value != value of _check_instrument_value.
Differ(instr_value, value) == instr_value # value

\* ------------------------------------------------------------------------
\* The device and the calls
\* ------------------------------------------------------------------------

\* Largest raw value a register holds at first, and largest raw value such a
\* register holds when a read-modify-write round trip is run on it.
MaxRaw == 6
MaxTripRaw == 30
\* User values are the decimals n / 10^k, n in 0..MaxNum, k in 0..MaxDigits.
MaxNum == 2
MaxDigits == 1
\* The limit of a device that clamps what is written to it.
DeviceLimit == 1
\* Menus and parameters of a descriptor declared by hand.
MaxMenu == 0
MaxParameter == 1

Raws == 0..MaxRaw
TripRaws == 0..MaxTripRaw
NumValues == {Num(Dec(n, k)) : n \in 0..MaxNum, k \in 0..MaxDigits}
Symbols == {int_dict_mode[r] : r \in DOMAIN int_dict_mode}
             \cup {int_dict_ref[r] : r \in DOMAIN int_dict_ref}
SymValues == {Sym(s) : s \in Symbols}
Modes == {int_dict_mode[r] : r \in DOMAIN int_dict_mode}

\* How the device treats a write: it stores the value, keeps the old one,
\* or clamps the value to a ceiling or to a floor.
DeviceKinds == {"stores", "rejects", "ceiling", "floor"}

DeviceStore(kind, old, raw) ==
  CASE kind = "stores"  -> raw
    [] kind = "rejects" -> old
    [] kind = "ceiling" -> IF raw > DeviceLimit THEN DeviceLimit ELSE raw
    [] kind = "floor"   -> IF raw < DeviceLimit THEN DeviceLimit ELSE raw

\* The registers of the device: those of the declared features and those a
\* descriptor declared by hand can name.
Adresses ==
  {f.adress : f \in Features}
    \cup {Adress(m, p) : m \in 0..MaxMenu, p \in 1..MaxParameter}

NoDescriptor == Raised("", "undeclared", None, None)

NoCall ==
  [feat |-> NoDescriptor, op |-> "", value |-> NoneValue, check |-> FALSE,
   stage |-> ""]

Pending == [kind |-> "pending", value |-> NoneValue, exc |-> ""]
Return(v) == [kind |-> "return", value |-> v, exc |-> ""]
Raise(e) == [kind |-> "raise", value |-> NoneValue, exc |-> e]

VARIABLES
  regs,      \* the raw value of each register of the device
  device,    \* how the device treats a write
  extra,     \* the descriptor declared by hand, or what its constructor raised
  pc,        \* where the current call stands
  cur,       \* the current call: feature, operation, value, check, stage
  regs0,     \* the registers when the current call started
  log,       \* the transport operations of the current call, in order
  warnings,  \* the warnings of the current call, in order
  result,    \* what the current call returned or raised
  trip,      \* the round trip get, set, get: its step and what get returned
  caller     \* the caller: the method it runs, its place in it, its earlier calls

vars ==
  <<regs, device, extra, pc, cur, regs0, log, warnings, result, trip, caller>>

NoTrip == [step |-> 0, value |-> NoneValue, raw |-> 0]

\* The local variables of example_linear_ramps, and the statement it stands
\* at; max_speed and duration are whole numbers of Hz and of seconds.
NoRamp ==
  [max_speed |-> 0, duration |-> 0, steps |-> 0, t |-> Zero, speed |-> Zero,
   start_speed |-> NoneValue, at |-> ""]

\* A caller that runs no method and has completed no call.
NoCaller ==
  [method |-> "", speed |-> NoneValue, pos |-> 0, past |-> <<>>,
   ramp |-> NoRamp]

\* The device in any state: the mode register and the other registers hold
\* any raw values of the given sets.
InitOn(modeRaws, raws) ==
  /\ \E m \in modeRaws, r \in raws :
       regs = [a \in Adresses |-> IF a = ModeFeature.adress THEN m ELSE r]
  /\ device \in DeviceKinds
  /\ extra = NoDescriptor
  /\ pc = "idle"
  /\ cur = NoCall
  /\ regs0 = regs
  /\ log = <<>>
  /\ warnings = <<>>
  /\ result = Pending
  /\ trip = NoTrip
  /\ caller = NoCaller

Init == InitOn(Raws, Raws)

\* ------------------------------------------------------------------------
\* Steps of a call.  A call is cut at its transport operations.
\* ------------------------------------------------------------------------

ReadEntry(adress, by) ==
  [op |-> "read", adress |-> adress, raw |-> regs[adress], by |-> by]
WriteEntry(adress, raw) ==
  [op |-> "write", adress |-> adress, raw |-> raw, by |-> "own"]

\* A call starts: the registers are remembered, the records of the call are
\* cleared, and the call stands at the given place.
Begin(f, op, value, check, at) ==
  /\ cur' = [feat |-> f, op |-> op, value |-> value, check |-> check,
             stage |-> "main"]
  /\ pc' = at
  /\ regs0' = regs
  /\ log' = <<>>
  /\ warnings' = <<>>
  /\ result' = Pending
  /\ UNCHANGED <<regs, device, extra>>

\* The call ends with an exception, or with a value.
Fails(exc) == pc' = "done" /\ result' = Raise(exc)
Returns(v) == pc' = "done" /\ result' = Return(v)

\* if self._mode != 'all' of Value.get and Value.set.
Value_gated(f) == f.mode # "all"

\* Value.get, up to its first transport operation.
Value_get(f) ==
  /\ f.class = "Value"
  /\ Begin(f, "get", NoneValue, FALSE,
           IF Value_gated(f) THEN "check_mode" ELSE "read")

\* Value.set without its mode check.
Value_set_unchecked(f, value, check) ==
  /\ f.class = "Value"
  /\ Begin(f, "set", value, check, "write")

\* Value.set, up to its first transport operation.
Value_set(f, value, check) ==
  /\ f.class = "Value"
  /\ Begin(f, "set", value, check,
           IF Value_gated(f) THEN "check_mode" ELSE "write")

\* if self._mode != 'all' of StringValue.get and StringValue.set.
StringValue_gated(f) == f.mode # "all"

\* StringValue.get, up to its first transport operation.
StringValue_get(f) ==
  /\ f.class = "StringValue"
  /\ Begin(f, "get", NoneValue, FALSE,
           IF StringValue_gated(f) THEN "check_mode" ELSE "read")

\* StringValue.set, up to its first transport operation.
StringValue_set(f, value, check) ==
  /\ f.class = "StringValue"
  /\ Begin(f, "set", value, check,
           IF StringValue_gated(f) THEN "check_mode" ELSE "write")

\* The test of Value._check_mode with == for !=.
Value_mode_ok_inverted(f, mode) == f.mode = "all" \/ mode # f.mode

\* The test of Value._check_mode on the mode it has read.
Value_mode_ok(f, mode) == f.mode = "all" \/ mode = f.mode

\* The test of StringValue._check_mode on the mode it has read.
StringValue_mode_ok(f, mode) == f.mode = "all" \/ mode = f.mode

\* Where a call goes on after a mode check that passed: get, and the
\* verification of set, read the register; set writes it.
AfterCheck == IF cur.op = "get" \/ cur.stage = "verify" THEN "read" ELSE "write"

\* The mode check that lets a mode without a symbol pass.
CheckModeWith_lenient(ok) ==
  LET m == ModeFeature
  IN  IF StringValue_gated(m)
      THEN /\ Fails("RecursionError")
           /\ UNCHANGED log
      ELSE /\ log' = Append(log, ReadEntry(m.adress, "mode"))
           /\ IF ~HasSymbol(m, regs[m.adress])
              THEN pc' = AfterCheck /\ UNCHANGED result
              ELSE IF ~ok THEN Fails("ModeError")
              ELSE pc' = AfterCheck /\ UNCHANGED result

\* self._driver.mode.get() and the test that follows it.  The mode feature is
\* read through its own get: were it gated, its mode check would call it
\* again, without end.
CheckModeWith(ok) ==
  LET m == ModeFeature
  IN  IF StringValue_gated(m)
      THEN /\ Fails("RecursionError")
           /\ UNCHANGED log
      ELSE /\ log' = Append(log, ReadEntry(m.adress, "mode"))
           /\ IF ~HasSymbol(m, regs[m.adress]) THEN Fails("UnknownSymbolError")
              ELSE IF ~ok THEN Fails("ModeError")
              ELSE pc' = AfterCheck /\ UNCHANGED result

\* The mode as the last call before this one read it, when it read one.
ModeRead_cached ==
  LET past == caller.past
      seen == /\ past # <<>>
              /\ past[Len(past)].log # <<>>
              /\ past[Len(past)].log[1].by = "mode"
              /\ HasSymbol(ModeFeature, past[Len(past)].log[1].raw)
  IN  IF seen THEN Symbol(ModeFeature, past[Len(past)].log[1].raw).sym
      ELSE Symbol(ModeFeature, regs[ModeFeature.adress]).sym

\* The mode read by a mode check (when it has a symbol).
ModeRead == Symbol(ModeFeature, regs[ModeFeature.adress]).sym

\* Value._check_mode.
Value_check_mode ==
  /\ pc = "check_mode"
  /\ cur.feat.class = "Value"
  /\ CheckModeWith(Value_mode_ok(cur.feat, ModeRead))
  /\ UNCHANGED <<regs, device, extra, cur, regs0, warnings, trip, caller>>

\* StringValue._check_mode.
StringValue_check_mode ==
  /\ pc = "check_mode"
  /\ cur.feat.class = "StringValue"
  /\ CheckModeWith(StringValue_mode_ok(cur.feat, ModeRead))
  /\ UNCHANGED <<regs, device, extra, cur, regs0, warnings, trip, caller>>

\* After the write of set, with the verification whatever check is.
AfterWrite_always(gated) ==
  /\ cur' = [cur EXCEPT !.stage = "verify"]
  /\ pc' = IF gated THEN "check_mode" ELSE "read"
  /\ UNCHANGED result

\* After the write of set: the end of the call, or self.get() of
\* _check_instrument_value, which starts with the gate test of get.
AfterWrite(gated) ==
  IF cur.check
  THEN /\ cur' = [cur EXCEPT !.stage = "verify"]
       /\ pc' = IF gated THEN "check_mode" ELSE "read"
       /\ UNCHANGED result
  ELSE /\ Returns(NoneValue)
       /\ UNCHANGED cur

\* Int16Value.set: the write of a raw value, as the device takes it.
ChannelWrite(adress, raw) ==
  /\ regs' = [regs EXCEPT ![adress] = DeviceStore(device, @, raw)]
  /\ log' = Append(log, WriteEntry(adress, raw))

\* Value.set, from the conversion to the write.
Value_write ==
  /\ pc = "write"
  /\ cur.feat.class = "Value"
  /\ ChannelWrite(cur.feat.adress, Value_raw_int(cur.feat, cur.value))
  /\ AfterWrite(Value_gated(cur.feat))
  /\ UNCHANGED <<device, extra, regs0, warnings, trip, caller>>

\* StringValue.set, from the conversion to the write.
StringValue_write ==
  /\ pc = "write"
  /\ cur.feat.class = "StringValue"
  /\ IF HasRaw(cur.feat, cur.value)
     THEN /\ ChannelWrite(cur.feat.adress, RawOfSymbol(cur.feat, cur.value))
          /\ AfterWrite(StringValue_gated(cur.feat))
     ELSE /\ Fails("UnknownSymbolError")
          /\ UNCHANGED <<regs, log, cur>>
  /\ UNCHANGED <<device, extra, regs0, warnings, trip, caller>>

\* The end of get with the value it read: the value is returned, or, in
\* _check_instrument_value, compared to the value set.
AfterRead(instr_value) ==
  IF cur.stage = "main"
  THEN /\ Returns(instr_value)
       /\ UNCHANGED warnings
  ELSE /\ Returns(NoneValue)
       /\ warnings' =
            IF Differ(instr_value, cur.value)
            THEN Append(warnings, [name |-> cur.feat.name,
                                   requested |-> cur.value,
                                   actual |-> instr_value])
            ELSE warnings

\* Value.get, from its read on, with a read that clears the register.
Value_read_clearing ==
  /\ pc = "read"
  /\ cur.feat.class = "Value"
  /\ log' = Append(log, ReadEntry(cur.feat.adress, "own"))
  /\ AfterRead(Value_logical(cur.feat, regs[cur.feat.adress]))
  /\ regs' = [regs EXCEPT ![cur.feat.adress] = 0]
  /\ UNCHANGED <<device, extra, cur, regs0, trip, caller>>

\* Value.get, from its read on.
Value_read ==
  /\ pc = "read"
  /\ cur.feat.class = "Value"
  /\ log' = Append(log, ReadEntry(cur.feat.adress, "own"))
  /\ AfterRead(Value_logical(cur.feat, regs[cur.feat.adress]))
  /\ UNCHANGED <<regs, device, extra, cur, regs0, trip, caller>>

\* StringValue.get, from its read on.
StringValue_read ==
  /\ pc = "read"
  /\ cur.feat.class = "StringValue"
  /\ log' = Append(log, ReadEntry(cur.feat.adress, "own"))
  /\ IF HasSymbol(cur.feat, regs[cur.feat.adress])
     THEN AfterRead(Symbol(cur.feat, regs[cur.feat.adress]))
     ELSE Fails("UnknownSymbolError") /\ UNCHANGED warnings
  /\ UNCHANGED <<regs, device, extra, cur, regs0, trip, caller>>

\* The steps of a call that has started.
Step ==
  \/ Value_check_mode
  \/ StringValue_check_mode
  \/ Value_write
  \/ StringValue_write
  \/ Value_read
  \/ StringValue_read

\* ------------------------------------------------------------------------
\* The callers and the operator
\* ------------------------------------------------------------------------

\* The operator changes the mode on the pad of the drive, between two calls.
OperatorSetsMode(m) ==
  /\ pc = "idle"
  /\ regs[ModeFeature.adress] # m
  /\ regs' = [regs EXCEPT ![ModeFeature.adress] = m]
  /\ regs0' = regs'
  /\ UNCHANGED <<device, extra, pc, cur, log, warnings, result, trip, caller>>

\* The descriptors declared by hand: both classes, with or without a menu
\* and a parameter.
Menus == {None} \cup 0..MaxMenu
Parameters == {None} \cup 1..MaxParameter
DeclModes == {"all", "open_loop"}

DeclareValue(d, mode, menu, parameter) ==
  /\ pc = "idle"
  /\ extra = NoDescriptor
  /\ extra' = Value("declared", d, mode, menu, parameter)
  /\ UNCHANGED <<regs, device, pc, cur, regs0, log, warnings, result, trip, caller>>

DeclareStringValue(int_dict, mode, menu, parameter) ==
  /\ pc = "idle"
  /\ extra = NoDescriptor
  /\ extra' = StringValue("declared", int_dict, menu, parameter, mode)
  /\ UNCHANGED <<regs, device, pc, cur, regs0, log, warnings, result, trip, caller>>

\* The features a caller can call: none while a call is running; then the
\* descriptor declared by hand once there is one, and the features of the
\* device class otherwise.
Callable ==
  IF pc # "idle" THEN {}
  ELSE IF extra = NoDescriptor THEN Features ELSE {extra}

\* A caller gets or sets a feature.
Get(f) ==
  /\ pc = "idle"
  /\ f.raised = ""
  /\ Value_get(f) \/ StringValue_get(f)
  /\ UNCHANGED <<trip, caller>>

Set(f, value, check) ==
  /\ pc = "idle"
  /\ f.raised = ""
  /\ Value_set(f, value, check) \/ StringValue_set(f, value, check)
  /\ UNCHANGED <<trip, caller>>

Next ==
  \/ \E m \in Raws : OperatorSetsMode(m)
  \/ \E mode \in DeclModes, menu \in Menus, parameter \in Parameters :
       DeclareValue(1, mode, menu, parameter)
  \/ \E mode \in DeclModes, menu \in Menus, parameter \in Parameters :
       DeclareStringValue(int_dict_ref, mode, menu, parameter)
  \/ \E f \in Callable : Get(f)
  \/ \E f \in Callable, value \in NumValues, check \in BOOLEAN :
       f.class = "Value" /\ Set(f, value, check)
  \/ \E f \in Callable, value \in SymValues, check \in BOOLEAN :
       f.class = "StringValue" /\ Set(f, value, check)
  \/ Step

Spec == Init /\ [][Next]_vars

\* ------------------------------------------------------------------------
\* The round trip: a caller gets a feature, sets it to the value it got and
\* gets it again.  The registers start with raw values up to MaxTripRaw.
\* ------------------------------------------------------------------------

TripInit == InitOn(DOMAIN int_dict_mode, TripRaws)

TripGet(f) ==
  /\ pc = "idle"
  /\ f.raised = ""
  /\ trip.step = 0
  /\ Value_get(f) \/ StringValue_get(f)
  /\ trip' = [trip EXCEPT !.step = 1]
  /\ UNCHANGED caller

TripSet(check) ==
  /\ pc = "done"
  /\ trip.step = 1
  /\ result.kind = "return"
  /\ \/ Value_set(cur.feat, result.value, check)
     \/ StringValue_set(cur.feat, result.value, check)
  /\ trip' = [step |-> 2, value |-> result.value, raw |-> regs[cur.feat.adress]]
  /\ UNCHANGED caller

TripGetAgain ==
  /\ pc = "done"
  /\ trip.step = 2
  /\ result.kind = "return"
  /\ Value_get(cur.feat) \/ StringValue_get(cur.feat)
  /\ trip' = [trip EXCEPT !.step = 3]
  /\ UNCHANGED caller

TripNext ==
  \/ \E mode \in DeclModes, menu \in Menus, parameter \in Parameters :
       DeclareValue(1, mode, menu, parameter)
  \/ \E mode \in DeclModes, menu \in Menus, parameter \in Parameters :
       DeclareStringValue(int_dict_ref, mode, menu, parameter)
  \/ \E f \in Callable : TripGet(f)
  \/ \E check \in BOOLEAN : TripSet(check)
  \/ TripGetAgain
  \/ Step

SpecRoundTrip == TripInit /\ [][TripNext]_vars
\* ------------------------------------------------------------------------
\* Sequences of calls: a caller makes one call after the other, and the
\* operator may change the mode once a call has started.
\* ------------------------------------------------------------------------

\* Largest number of calls in a sequence.
MaxCalls == 2

\* The operator changes the mode on the pad of the drive while a call runs,
\* or after it.
OperatorChangesMode(m) ==
  /\ pc # "idle"
  /\ regs[ModeFeature.adress] # m
  /\ regs' = [regs EXCEPT ![ModeFeature.adress] = m]
  /\ UNCHANGED <<device, extra, pc, cur, regs0, log, warnings, result, trip,
                 caller>>

\* What the caller keeps of a call that has ended.
Archive ==
  [feat |-> cur.feat, op |-> cur.op, regs0 |-> regs0, log |-> log,
   result |-> result]

\* The caller can make a call: no call is running and the sequence is not
\* at its end.
CallsReady ==
  \/ pc = "idle"
  \/ pc = "done" /\ Len(caller.past) + 1 < MaxCalls

\* The caller goes on to its next call.
CallsOn ==
  /\ caller' = [caller EXCEPT !.method = "calls",
                              !.past = IF pc = "done" THEN Append(@, Archive)
                                       ELSE @]
  /\ UNCHANGED trip

\* The features the caller calls: one of each kind of the device class (the
\* mode, a numeric feature that requires no mode, two numeric features that
\* require different modes at one address), or the descriptor declared by
\* hand once there is one.
CallsNames ==
  {"mode", "_speed", "_min_frequency_open_loop", "_min_speed_closed_loop"}

CallsFeatures ==
  IF ~CallsReady THEN {}
  ELSE IF extra = NoDescriptor THEN {Feature(n) : n \in CallsNames}
  ELSE {extra}

\* The modes the operator chooses from: those of the table, and a raw value
\* without a symbol.
CallsModes == {0} \cup DOMAIN int_dict_mode

CallsGet(f) ==
  /\ CallsReady
  /\ Value_get(f) \/ StringValue_get(f)
  /\ CallsOn

CallsSet(f, value, check) ==
  /\ CallsReady
  /\ Value_set(f, value, check) \/ StringValue_set(f, value, check)
  /\ CallsOn

CallsInit == InitOn(CallsModes, {0, MaxRaw}) /\ device = "stores"

CallsNext ==
  \/ \E m \in CallsModes : CallsReady /\ OperatorChangesMode(m)
  \/ DeclareStringValue(int_dict_ref, "open_loop", 0, 1)
  \/ \E f \in CallsFeatures : CallsGet(f)
  \/ \E f \in CallsFeatures, check \in BOOLEAN :
       /\ f.mode # "all"
       /\ CallsSet(f, IF f.class = "Value" THEN Num(FromInt(1)) ELSE Sym("pad"),
                   check)
  \/ Step

SpecCalls == CallsInit /\ [][CallsNext]_vars

\* ------------------------------------------------------------------------
\* The operator at any time: the mode may also change between two transport
\* operations of a call.
\* ------------------------------------------------------------------------

OperatorNext ==
  \/ CallsNext
  \/ \E m \in CallsModes :
       pc \in {"check_mode", "write", "read"} /\ OperatorChangesMode(m)

SpecOperator == CallsInit /\ [][OperatorNext]_vars

\* ------------------------------------------------------------------------
\* Transport failures: the channel may raise at any transport operation.
\* ------------------------------------------------------------------------

\* The raw value the current set is about to write.
RawToWrite ==
  IF cur.feat.class = "Value" THEN Value_raw_int(cur.feat, cur.value)
  ELSE RawOfSymbol(cur.feat, cur.value)

\* The transport operation the current call is about to issue.
NextEntry ==
  CASE pc = "check_mode" ->
         [op |-> "read", adress |-> ModeFeature.adress, raw |-> None,
          by |-> "mode"]
    [] pc = "read" ->
         [op |-> "read", adress |-> cur.feat.adress, raw |-> None,
          by |-> "own"]
    [] pc = "write" -> WriteEntry(cur.feat.adress, RawToWrite)

\* A write that fails is issued again, and the call goes on.
ChannelFails_retried ==
  /\ pc = "write"
  /\ cur.feat.class = "StringValue" => HasRaw(cur.feat, cur.value)
  /\ log' = Append(Append(log, NextEntry), NextEntry)
  /\ regs' = [regs EXCEPT ![cur.feat.adress] =
                            DeviceStore(device, @, RawToWrite)]
  /\ AfterWrite(cur.feat.mode # "all")
  /\ UNCHANGED <<device, extra, regs0, warnings, trip, caller>>

\* A transport operation of the current call fails: the channel raises, and
\* nothing of get, set, _check_mode or _check_instrument_value catches.  A
\* write that fails has reached the device, or not.
ChannelFails ==
  /\ pc \in {"check_mode", "write", "read"}
  /\ (pc = "write" /\ cur.feat.class = "StringValue") =>
       HasRaw(cur.feat, cur.value)
  /\ log' = Append(log, NextEntry)
  /\ \/ regs' = regs
     \/ /\ pc = "write"
        /\ regs' = [regs EXCEPT ![cur.feat.adress] =
                                  DeviceStore(device, @, RawToWrite)]
  /\ Fails("TransportError")
  /\ UNCHANGED <<device, extra, cur, regs0, warnings, trip, caller>>

TransportNext == Next \/ ChannelFails

SpecTransport == Init /\ [][TransportNext]_vars

\* ------------------------------------------------------------------------
\* UnidriveSP.start_rotation.  The method is cut at the calls of get and set
\* it makes; an exception of a call ends it.
\* ------------------------------------------------------------------------

\* UnidriveSP._constant_nb_pairs_poles.
constant_nb_pairs_poles == 4

\* The speeds given to start_rotation: None, or a number.
Speeds == {NoneValue} \cup NumValues

\* The call before has returned and start_rotation stands after its
\* statement number pos.
RotationAt(pos) ==
  /\ caller.method = "start_rotation"
  /\ caller.pos = pos
  /\ pc = "done"
  /\ result.kind = "return"

\* start_rotation goes on to its statement number pos.
RotationOn(pos) ==
  /\ caller' = [caller EXCEPT !.pos = pos, !.past = Append(@, Archive)]
  /\ UNCHANGED trip

\* start_rotation, up to self._reference_selection.set("preset").
start_rotation(speed) ==
  /\ pc = "idle"
  /\ caller = NoCaller
  /\ StringValue_set(Feature("_reference_selection"), Sym("preset"), TRUE)
  /\ caller' = [caller EXCEPT !.method = "start_rotation", !.speed = speed,
                              !.pos = 1]
  /\ UNCHANGED trip

\* self._unlocked.get() of the test of start_rotation.
start_rotation_unlocked ==
  /\ RotationAt(1)
  /\ Value_get(Feature("_unlocked"))
  /\ RotationOn(2)

\* 'not self._unlocked.get()' with the test the other way round.
NotUnlocked_inverted == result.value.num # Zero

\* not self._unlocked.get(), on the value the get has returned.
NotUnlocked == result.value.num = Zero

\* self._unlocked.set(1), when the motor is not unlocked.
start_rotation_unlock ==
  /\ RotationAt(2)
  /\ NotUnlocked
  /\ Value_set(Feature("_unlocked"), Num(FromInt(1)), TRUE)
  /\ RotationOn(3)

\* start_rotation stands after its test of _unlocked.
RotationUnlocked == (RotationAt(2) /\ ~NotUnlocked) \/ RotationAt(3)

\* 'speed is not None' that holds for None as well.
SpeedGiven_always == TRUE

\* speed is not None.
SpeedGiven == caller.speed # NoneValue

\* set_target_rotation_rate of a number (no conversion to float), up to the
\* first transport operation of self._speed.set.
set_target_rotation_rate(rotation_rate, check) ==
  Value_set(Feature("_speed"),
            Num(MulInt(rotation_rate.num, constant_nb_pairs_poles)), check)

\* self.set_target_rotation_rate(speed), when a speed is given.
start_rotation_speed ==
  /\ RotationUnlocked
  /\ SpeedGiven
  /\ set_target_rotation_rate(caller.speed, FALSE)
  /\ RotationOn(4)

\* self._rotate.set(1).
start_rotation_rotate ==
  /\ (RotationUnlocked /\ ~SpeedGiven) \/ RotationAt(4)
  /\ Value_set(Feature("_rotate"), Num(FromInt(1)), TRUE)
  /\ RotationOn(5)

RotationNext ==
  \/ \E speed \in Speeds : start_rotation(speed)
  \/ start_rotation_unlocked
  \/ start_rotation_unlock
  \/ start_rotation_speed
  \/ start_rotation_rotate
  \/ Value_write
  \/ StringValue_write
  \/ Value_read
  \/ StringValue_read

SpecRotation == Init /\ [][RotationNext]_vars

\* ------------------------------------------------------------------------
\* The target rotation rate, set then read
\* ------------------------------------------------------------------------

\* x / p for a number x and p a power of two: exact.
DivPow2(x, p) ==
  IF x.bits = <<>> THEN Zero
  ELSE [x EXCEPT !.exp = @ - (BitLength(p) - 1)]

\* get_target_rotation_rate, up to the first transport operation of
\* self._speed.get.
get_target_rotation_rate == Value_get(Feature("_speed"))

\* raw_speeed = self._speed.get(), on the value the get has returned.
raw_speeed == result.value.num

\* What get_target_rotation_rate returns without the division.
get_target_rotation_rate_undivided == Num(raw_speeed)

\* return raw_speeed / self._constant_nb_pairs_poles.
get_target_rotation_rate_return ==
  Num(DivPow2(raw_speeed, constant_nb_pairs_poles))

\* The rates of the calls: the multiples of 0.0125 Hz up to MaxRate steps of
\* 0.025 Hz; every other one is a multiple of 0.025 Hz.
MaxRate == 40
RateTable == [k \in 0..(2 * MaxRate) |-> DivInt(k, 80)]
Rates == {Num(RateTable[k]) : k \in DOMAIN RateTable}

RateInit == InitOn(DOMAIN int_dict_mode, {0, MaxRaw})

\* A caller calls set_target_rotation_rate(rate, check=check).
RateSet(rate, check) ==
  /\ pc = "idle"
  /\ caller = NoCaller
  /\ set_target_rotation_rate(rate, check)
  /\ caller' = [caller EXCEPT !.method = "target_rotation_rate",
                              !.speed = rate, !.pos = 1]
  /\ UNCHANGED trip

\* The caller calls get_target_rotation_rate() when the set has returned.
RateGet ==
  /\ caller.method = "target_rotation_rate"
  /\ caller.pos = 1
  /\ pc = "done"
  /\ result.kind = "return"
  /\ get_target_rotation_rate
  /\ caller' = [caller EXCEPT !.pos = 2, !.past = Append(@, Archive)]
  /\ UNCHANGED trip

RateNext ==
  \/ \E rate \in Rates, check \in BOOLEAN : RateSet(rate, check)
  \/ RateGet
  \/ Value_write
  \/ Value_read

SpecRate == RateInit /\ [][RateNext]_vars

\* ------------------------------------------------------------------------
\* example_linear_ramps
\* ------------------------------------------------------------------------

\* The arguments of example_linear_ramps: max_speed in 0..MaxSpeed,
\* duration in 1..MaxDuration, steps in 0..MaxSteps.
MaxSpeed == 2
MaxDuration == 2
MaxSteps == 4

\* The call before has returned and example_linear_ramps stands after one
\* of these statements (after its call of start_rotation when that method
\* has returned).
RampAt(ats) ==
  /\ caller.ramp.at \in ats
  /\ pc = "done"
  /\ result.kind = "return"
  /\ caller.method = "example_linear_ramps" \/ RotationAt(5)

\* example_linear_ramps goes on with these local variables.
RampOn(ramp) ==
  /\ caller' = [caller EXCEPT !.method = "example_linear_ramps",
                              !.ramp = ramp, !.past = Append(@, Archive)]
  /\ UNCHANGED trip

\* example_linear_ramps, up to start_speed = motor.get_target_rotation_rate().
example_linear_ramps(max_speed, duration, steps) ==
  /\ pc = "idle"
  /\ caller = NoCaller
  /\ get_target_rotation_rate
  /\ caller' = [caller EXCEPT
                  !.method = "example_linear_ramps",
                  !.ramp = [NoRamp EXCEPT !.max_speed = max_speed,
                                          !.duration = duration,
                                          !.steps = steps, !.at = "get"]]
  /\ UNCHANGED trip

\* motor.start_rotation(speed) with speed = 0, up to
\* self._reference_selection.set("preset") of start_rotation.
ramps_start_rotation ==
  /\ RampAt({"get"})
  /\ StringValue_set(Feature("_reference_selection"), Sym("preset"), TRUE)
  /\ caller' = [caller EXCEPT
                  !.method = "start_rotation", !.speed = Num(Zero),
                  !.pos = 1, !.past = Append(@, Archive),
                  !.ramp = [@ EXCEPT
                              !.start_speed = get_target_rotation_rate_return,
                              !.at = "start"]]
  /\ UNCHANGED trip

\* t < duration/2 and t < duration.
RampUpTest ==
  Less(caller.ramp.t, DivPow2(FromInt(caller.ramp.duration), 2))
RampDownTest == Less(caller.ramp.t, FromInt(caller.ramp.duration))

\* duration/steps and 2*max_speed/steps.
RampTimeStep == DivInt(caller.ramp.duration, caller.ramp.steps)
RampSpeedStep == DivInt(2 * caller.ramp.max_speed, caller.ramp.steps)

\* The first loop is at its test, and the second one is.
RampInUp == RampAt({"start", "up"})
RampInDown == (RampInUp /\ ~RampUpTest) \/ RampAt({"down"})

\* One turn of the first loop: speed += 2*max_speed/steps, t +=
\* duration/steps, motor.set_target_rotation_rate(speed, check=False).
ramps_up ==
  /\ RampInUp
  /\ RampUpTest
  /\ caller.ramp.steps # 0
  /\ LET speed == Add(caller.ramp.speed, RampSpeedStep)
         t     == Add(caller.ramp.t, RampTimeStep)
     IN  /\ set_target_rotation_rate(Num(speed), FALSE)
         /\ RampOn([caller.ramp EXCEPT !.speed = speed, !.t = t,
                                       !.at = "up"])

\* sleep(duration/steps) with steps = 0: ZeroDivisionError ends the function.
ramps_up_raises ==
  /\ RampInUp
  /\ RampUpTest
  /\ caller.ramp.steps = 0
  /\ caller' = [caller EXCEPT !.method = "example_linear_ramps",
                              !.ramp = [@ EXCEPT !.at = "raised"]]
  /\ UNCHANGED <<regs, device, extra, pc, cur, regs0, log, warnings, result,
                 trip>>

\* One turn of the second loop: speed -= 2*max_speed/steps, t +=
\* duration/steps, speed = 0. if speed < 0,
\* motor.set_target_rotation_rate(speed, check=False).
ramps_down ==
  /\ RampInDown
  /\ RampDownTest
  /\ LET speed == IF Less(caller.ramp.speed, RampSpeedStep) THEN Zero
                  ELSE Sub(caller.ramp.speed, RampSpeedStep)
         t     == Add(caller.ramp.t, RampTimeStep)
     IN  /\ set_target_rotation_rate(Num(speed), FALSE)
         /\ RampOn([caller.ramp EXCEPT !.speed = speed, !.t = t,
                                       !.at = "down"])

\* stop_rotation, up to self._reference_selection.set('preset').
stop_rotation ==
  StringValue_set(Feature("_reference_selection"), Sym("preset"), TRUE)

\* self._rotate.set(0) of stop_rotation.
stop_rotation_rotate == Value_set(Feature("_rotate"), Num(Zero), TRUE)

\* lock that leaves the motor unlocked.
lock_unlocking == Value_set(Feature("_unlocked"), Num(FromInt(1)), TRUE)

\* lock: self._unlocked.set(0).
lock == Value_set(Feature("_unlocked"), Num(Zero), TRUE)

\* motor.stop_rotation() after the second loop.
ramps_stop_rotation ==
  /\ RampInDown
  /\ ~RampDownTest
  /\ stop_rotation
  /\ RampOn([caller.ramp EXCEPT !.at = "stop_preset"])

ramps_stop_rotation_rotate ==
  /\ RampAt({"stop_preset"})
  /\ stop_rotation_rotate
  /\ RampOn([caller.ramp EXCEPT !.at = "stop"])

\* motor.set_target_rotation_rate(start_speed, check=False).
ramps_restore ==
  /\ RampAt({"stop"})
  /\ set_target_rotation_rate(caller.ramp.start_speed, FALSE)
  /\ RampOn([caller.ramp EXCEPT !.at = "restore"])

\* motor.lock().
ramps_lock ==
  /\ RampAt({"restore"})
  /\ lock
  /\ RampOn([caller.ramp EXCEPT !.at = "lock"])

RampNext ==
  \/ \E max_speed \in 0..MaxSpeed, duration \in 1..MaxDuration,
        steps \in 0..MaxSteps :
       example_linear_ramps(max_speed, duration, steps)
  \/ ramps_start_rotation
  \/ start_rotation_unlocked
  \/ start_rotation_unlock
  \/ start_rotation_speed
  \/ start_rotation_rotate
  \/ ramps_up
  \/ ramps_up_raises
  \/ ramps_down
  \/ ramps_stop_rotation
  \/ ramps_stop_rotation_rotate
  \/ ramps_restore
  \/ ramps_lock
  \/ Value_write
  \/ StringValue_write
  \/ Value_read
  \/ StringValue_read

RampInit == InitOn({1}, Raws)

SpecRamp == RampInit /\ [][RampNext]_vars

\* ------------------------------------------------------------------------
\* Properties
\* ------------------------------------------------------------------------

\* The entries of the log of the current call that are mode reads, and those
\* at the feature's own register.
ModeReads == {i \in 1..Len(log) : log[i].by = "mode"}
OwnEntries == {i \in 1..Len(log) : log[i].by = "own"}
OwnWrites == {i \in 1..Len(log) : log[i].op = "write"}

\* A mode read that found a mode other than the one the feature requires.
WrongMode(i) ==
  /\ HasSymbol(ModeFeature, log[i].raw)
  /\ ModeFeature.int_dict[log[i].raw] # cur.feat.mode

\* C1: get and set of a feature that requires a named mode raise ModeError
\* whenever the mode read differs from that mode (and only then); get and
\* set of a feature whose requirement is "all" never raise ModeError.
C1_ModeGating ==
  cur.op # "" =>
    /\ cur.feat.mode = "all" => result.exc # "ModeError"
    /\ cur.feat.mode # "all" =>
         /\ \A i \in ModeReads : WrongMode(i) => result = Raise("ModeError")
         /\ result.exc = "ModeError" => \E i \in ModeReads : WrongMode(i)

C1_Witness ==
  /\ pc = "done"
  /\ cur.op = "set"
  /\ cur.feat.name = "_rated_current_closed_loop"
  /\ regs[ModeFeature.adress] = 1
  /\ result = Raise("ModeError")

\* C2: when set fails its mode check, the read of the mode register is the
\* only transport operation of the call and no register has changed.
C2_ModeErrorBeforeWrite ==
  (cur.op = "set" /\ result.exc = "ModeError") =>
    /\ log = <<[op |-> "read", adress |-> ModeFeature.adress,
                raw |-> regs0[ModeFeature.adress], by |-> "mode"]>>
    /\ regs = regs0

C2_Witness ==
  /\ pc = "done"
  /\ cur.op = "set"
  /\ cur.check
  /\ cur.feat.mode = "servo"
  /\ cur.value # Value_logical(cur.feat, regs0[cur.feat.adress])
  /\ result.exc = "ModeError"

\* The nearest integer to a number, a tie going to the even one: round(x).
RoundNearest(x) ==
  IF x.bits = <<>> \/ x.exp < -1 THEN 0
  ELSE LET n    == x.exp + 1
           half == Len(x.bits) > n /\ x.bits[n + 1] = 1
           rest == \E i \in (n + 2)..Len(x.bits) : x.bits[i] = 1
           t    == Trunc(x)
       IN  IF half /\ (rest \/ t % 2 = 1) THEN t + 1 ELSE t

\* A number rounded to d decimals: round(x, d).
RoundDec(x, d) ==
  IF d = 0 THEN FromInt(RoundNearest(x))
  ELSE DivInt(RoundNearest(MulInt(x, Pow10(d))), Pow10(d))

\* The logical value of a raw value of a feature.
Logical(f, raw) ==
  IF f.class = "Value" THEN Value_logical(f, raw) ELSE Symbol(f, raw)

\* The current call is a set that has ended.
SetDone == pc = "done" /\ cur.op = "set"

\* The device holds another raw value than the one the current call wrote.
StoredDiffers == \E i \in OwnWrites : regs[log[i].adress] # log[i].raw

\* C3: when the device stores another raw value than the one written,
\* set(v, check=True) returns normally with exactly one warning, which
\* carries the requested value and the value read back, and it writes the
\* register once only (what the device stored stays there).
C3_ClampedWriteWarnsOnce ==
  (SetDone /\ cur.check /\ StoredDiffers) =>
    /\ result = Return(NoneValue)
    /\ Len(warnings) = 1
    /\ warnings[1].requested = cur.value
    /\ warnings[1].actual = Logical(cur.feat, regs[cur.feat.adress])
    /\ Cardinality(OwnWrites) = 1

\* C4: set(x, check=True) of a numeric feature with d decimals warns if and
\* only if the value read back differs from x rounded to d decimals.
C4_WarnsIffRoundedDiffers ==
  (SetDone /\ cur.check /\ cur.feat.class = "Value" /\ result.kind = "return") =>
    (warnings # <<>>) <=>
      (Value_logical(cur.feat, regs[cur.feat.adress]).num
         # RoundDec(cur.value.num, cur.feat.number_of_decimals))

\* C5: set(x) of a numeric feature with d decimals writes the integer nearest
\* to x * 10^d.
C5_SetWritesNearest ==
  (cur.op = "set" /\ cur.feat.class = "Value") =>
    \A i \in OwnWrites :
      log[i].raw =
        RoundNearest(MulInt(cur.value.num, Pow10(cur.feat.number_of_decimals)))

\* C6: on a device that stores what is written, get, set of the value got
\* and get again return the same value twice and leave the register as it
\* was.
C6_GetSetGet ==
  (trip.step = 3 /\ pc = "done" /\ device = "stores") =>
    /\ result = Return(trip.value)
    /\ regs[cur.feat.adress] = trip.raw

\* The descriptors that exist: those of the device class and the one
\* declared by hand, when its constructor returned.
Descriptors == {f \in Features \cup {extra} : f.raised = ""}

\* The feature of menu 0, parameter 24 has the address 23.
SpeedAt23 == \E f \in Features : f.menu = 0 /\ f.parameter = 24 /\ f.adress = 23

\* C7: every descriptor is bound to the address 100 * menu + parameter - 1
\* (menu 0, parameter 24: address 23); every read and write a call issues
\* for the value of its feature is at that address, and every read of the
\* mode at the address of the mode feature.
C7_AddressBinding ==
  /\ \A f \in Descriptors : f.adress = 100 * f.menu + f.parameter - 1
  /\ SpeedAt23
  /\ \A i \in OwnEntries :
       log[i].adress = 100 * cur.feat.menu + cur.feat.parameter - 1
  /\ \A i \in ModeReads : log[i].adress = 100 * 0 + 48 - 1

C7_Witness ==
  /\ SetDone
  /\ cur.check
  /\ cur.feat.menu = 0
  /\ cur.feat.parameter = 24
  /\ Len(log) = 2
  /\ log[1].op = "write" /\ log[1].adress = 23
  /\ log[2].op = "read" /\ log[2].adress = 23

\* No two raw values of a table have the same symbol.
Injective(int_dict) ==
  \A r, q \in DOMAIN int_dict : int_dict[r] = int_dict[q] => r = q

TablesInjective == Injective(int_dict_mode) /\ Injective(int_dict_ref)

\* C8: the mode table and the reference table are injective, and on a device
\* that stores what is written, set(s, check=True) of a symbol s of the table
\* of a feature warns of nothing and leaves the register at a raw value whose
\* symbol is s; it returns whenever the feature requires no mode.
C8_SymbolRoundTrip ==
  /\ TablesInjective
  /\ (/\ SetDone
      /\ cur.check
      /\ cur.feat.class = "StringValue"
      /\ HasRaw(cur.feat, cur.value)
      /\ device = "stores") =>
       /\ cur.feat.mode = "all" => result = Return(NoneValue)
       /\ result.kind = "return" =>
            /\ warnings = <<>>
            /\ HasSymbol(cur.feat, regs[cur.feat.adress])
            /\ Symbol(cur.feat, regs[cur.feat.adress]) = cur.value

C8_Witness ==
  /\ SetDone
  /\ cur.check
  /\ cur.feat.name = "_reference_selection"
  /\ cur.value = Sym("Prc")
  /\ device = "stores"
  /\ regs0[cur.feat.adress] # 5
  /\ regs[cur.feat.adress] = 5
  /\ result = Return(NoneValue)

\* C9: get of a symbolic feature whose register holds a raw value without a
\* symbol returns nothing: it raises (UnknownSymbolError, unless its mode
\* check has failed before); a call whose mode check reads a mode without a
\* symbol raises UnknownSymbolError with no read and no write at the address
\* of its feature.
C9_UnmappedRawFails ==
  /\ (/\ pc = "done"
      /\ cur.op = "get"
      /\ cur.feat.class = "StringValue"
      /\ ~HasSymbol(cur.feat, regs[cur.feat.adress])) =>
       /\ result.kind = "raise"
       /\ result.exc # "ModeError" => result.exc = "UnknownSymbolError"
  /\ (log # <<>> /\ log[1].by = "mode" /\ ~HasSymbol(ModeFeature, log[1].raw)) =>
       /\ result = Raise("UnknownSymbolError")
       /\ OwnEntries = {}
       /\ regs = regs0

C9_Witness ==
  /\ pc = "done"
  /\ cur.op = "set"
  /\ cur.feat.mode = "closed_loop"
  /\ ~HasSymbol(ModeFeature, regs[ModeFeature.adress])
  /\ log = <<[op |-> "read", adress |-> ModeFeature.adress,
              raw |-> regs[ModeFeature.adress], by |-> "mode"]>>
  /\ result = Raise("UnknownSymbolError")

\* C10: the constructor of a descriptor, Value or StringValue, without a menu
\* or without a parameter raises the error of a malformed descriptor, and no
\* call runs on a descriptor without an address.
C10_MissingCoordinatesRejected ==
  /\ (extra # NoDescriptor /\ (extra.menu = None \/ extra.parameter = None)) =>
       extra.raised = "ValueError"
  /\ cur.op # "" => cur.feat.menu # None /\ cur.feat.parameter # None

\* The mode checks the current call has completed.
ChecksDone ==
  IF cur.op = "" \/ cur.feat.mode = "all" THEN 0
  ELSE (IF cur.stage = "verify" THEN 1 ELSE 0)
         + (IF pc = "check_mode" THEN 0 ELSE 1)

\* C11: the mode feature requires no mode, so a mode check is one read of
\* the mode register and never starts another mode check, and get of the
\* mode feature returns the mode whatever mode the register holds.
C11_ModeNeverGated ==
  /\ ModeFeature.mode = "all"
  /\ result.exc # "RecursionError"
  /\ Cardinality(ModeReads) = ChecksDone
  /\ (/\ pc = "done"
      /\ cur.op = "get"
      /\ cur.feat = ModeFeature
      /\ HasSymbol(ModeFeature, regs[ModeFeature.adress])) =>
       /\ result = Return(Symbol(ModeFeature, regs[ModeFeature.adress]))
       /\ log = <<[op |-> "read", adress |-> ModeFeature.adress,
                   raw |-> regs[ModeFeature.adress], by |-> "own"]>>

C11_Witness ==
  /\ pc = "done"
  /\ cur.op = "get"
  /\ cur.feat.name = "mode"
  /\ regs[ModeFeature.adress] = 3
  /\ result = Return(Sym("servo"))

\* The last entry of the log is a read of the mode that a step has just made.
ModeJustRead ==
  /\ Len(log') = Len(log) + 1
  /\ log'[Len(log')].by = "mode"

\* C12: in a sequence of calls with changes of the mode in between, a call
\* of a feature that requires a mode reads the mode register before any read
\* or write of its own register, reads the value the register holds at that
\* moment, and raises ModeError exactly when that value is another mode than
\* the required one, whatever the call before it has read.
C12_ModeNeverCached ==
  /\ [](cur.op # "" /\ cur.feat.mode # "all" =>
          /\ \A i \in OwnEntries : 1 \in ModeReads /\ i > 1
          /\ \A i \in ModeReads : WrongMode(i) => result = Raise("ModeError")
          /\ result.exc = "ModeError" =>
               Len(log) \in ModeReads /\ WrongMode(Len(log)))
  /\ [][ModeJustRead =>
          log'[Len(log')].raw = regs[ModeFeature.adress]]_vars

C12_Witness ==
  /\ pc = "done"
  /\ cur.feat.mode # "all"
  /\ result.kind = "return"
  /\ caller.past # <<>>
  /\ caller.past[1].feat = cur.feat
  /\ caller.past[1].result = Raise("ModeError")

\* The registers before the first call of the sequence.
FirstRegs == IF caller.past = <<>> THEN regs0 ELSE caller.past[1].regs0

\* The calls of the sequence so far are all calls of get.
OnlyGets ==
  /\ cur.op = "get"
  /\ \A k \in 1..Len(caller.past) : caller.past[k].op = "get"

\* C13: get issues no write, and no step of a get changes a register; after
\* a sequence of gets, returning or raising ModeError, every register but
\* the mode register, which the operator changes, holds what it held before
\* the sequence.
C13_GetWritesNothing ==
  /\ [](/\ cur.op = "get" => OwnWrites = {}
        /\ OnlyGets =>
             \A a \in Adresses \ {ModeFeature.adress} : regs[a] = FirstRegs[a])
  /\ [][(cur'.op = "get" /\ pc' # pc) => regs' = regs]_vars

C13_Witness ==
  /\ pc = "done"
  /\ cur.op = "get"
  /\ result.kind = "return"
  /\ regs[cur.feat.adress] = MaxRaw
  /\ Len(caller.past) = 1
  /\ caller.past[1].op = "get"
  /\ caller.past[1].result = Raise("ModeError")

\* The reads of the current call at the register of its feature.
OwnReads == {i \in OwnEntries : log[i].op = "read"}

\* C14: a failure of the transport ends the call with the error of the
\* transport, at the operation that failed: nothing follows it in the log;
\* when the write of set fails there is no read of the register and no
\* warning.  A call issues at most one write, and a get at most one read of
\* its register.
C14_TransportFailureEnds ==
  /\ result.exc = "TransportError" =>
       /\ pc = "done"
       /\ log # <<>>
       /\ log[Len(log)].op = "write" => OwnReads = {} /\ warnings = <<>>
  /\ \A i \in 1..Len(log) :
       (log[i].raw = None /\ log[i].op = "read") =>
         i = Len(log) /\ result = Raise("TransportError")
  /\ Cardinality(OwnWrites) <= 1
  /\ Cardinality(OwnReads) <= 1
  /\ cur.op = "get" => OwnWrites = {}

C14_Witness ==
  /\ SetDone
  /\ cur.check
  /\ cur.feat.mode # "all"
  /\ result = Raise("TransportError")
  /\ Len(log) = 2
  /\ log[2].op = "write"
  /\ regs # regs0

\* C15: set(v, check=True) issues one write of the register of the feature
\* and then one read of the same register, and no other write;
\* set(v, check=False) issues the write only, no read of the register, and
\* warns of nothing.
C15_WriteThenRead ==
  cur.op = "set" =>
    /\ \A i \in OwnEntries : log[i].adress = cur.feat.adress
    /\ Cardinality(OwnWrites) <= 1
    /\ Cardinality(OwnReads) <= (IF cur.check THEN 1 ELSE 0)
    /\ \A i \in OwnReads : \E j \in OwnWrites : j < i
    /\ ~cur.check => warnings = <<>>
    /\ (pc = "done" /\ result.kind = "return") =>
         /\ Cardinality(OwnWrites) = 1
         /\ cur.check => Cardinality(OwnReads) = 1

C15_Witness ==
  /\ SetDone
  /\ ~cur.check
  /\ result = Return(NoneValue)
  /\ Len(log) = 1
  /\ log[1].op = "write"
  /\ regs[cur.feat.adress] # log[1].raw

\* No two entries of the feature list have the same name.
NamesDiffer ==
  \A i, j \in 1..Len(FeatureList) :
    FeatureList[i].name = FeatureList[j].name => i = j

\* C17: no two descriptors of the feature list have the same name, so the
\* name of a feature that is called names that descriptor and no other.
C17_UniqueNames ==
  /\ NamesDiffer
  /\ (cur.op # "" /\ cur.feat \in Features) => Feature(cur.feat.name) = cur.feat

C17_Witness ==
  /\ pc = "done"
  /\ cur.op = "get"
  /\ cur.feat.name = "_rated_speed_closed_loop"
  /\ cur.feat.mode = "closed_loop"
  /\ result.kind = "return"

\* The mode check of a feature passes in this mode.
PassesIn(f, mode) ==
  IF f.class = "Value" THEN Value_mode_ok(f, mode)
  ELSE StringValue_mode_ok(f, mode)

\* The declared features bound to an address that pass their mode check in
\* a mode.
Accessible(a, mode) == {f \in Features : f.adress = a /\ PassesIn(f, mode)}

\* Two declared descriptors with one address both require a mode, not the
\* same one, and have the same number of decimals.
AliasesDiffer ==
  \A f, g \in Features :
    (f # g /\ f.adress = g.adress) =>
      /\ f.mode # "all"
      /\ g.mode # "all"
      /\ f.mode # g.mode
      /\ f.number_of_decimals = g.number_of_decimals

\* In any mode, at most one declared descriptor of an address passes its
\* mode check.
OnePerMode ==
  \A a \in Adresses, mode \in Modes : Cardinality(Accessible(a, mode)) <= 1

\* C19: two declared descriptors with one address both require a mode, not
\* the same one, and have the same number of decimals; so in any mode at
\* most one descriptor of an address passes its mode check, and when a call
\* reaches the register of a feature that requires a mode, no other
\* descriptor of that register passes in the mode the call has read.
C19_AliasesExclusive ==
  /\ AliasesDiffer
  /\ OnePerMode
  /\ (cur.op # "" /\ cur.feat \in Features /\ cur.feat.mode # "all"
        /\ OwnEntries # {}) =>
       Accessible(cur.feat.adress, ModeFeature.int_dict[log[1].raw])
         = {cur.feat}

C19_Witness ==
  /\ SetDone
  /\ cur.feat.name = "_min_speed_closed_loop"
  /\ log # <<>>
  /\ log[1].raw = 2
  /\ OwnWrites # {}
  /\ result.kind = "return"

\* A step has just issued a read or a write at the register of the feature
\* of the current call.
OwnJustIssued ==
  /\ Len(log') = Len(log) + 1
  /\ log'[Len(log')].by = "own"

\* The mode register holds the mode the feature of the current call
\* requires.
InRequiredMode ==
  /\ HasSymbol(ModeFeature, regs[ModeFeature.adress])
  /\ ModeFeature.int_dict[regs[ModeFeature.adress]] = cur.feat.mode

RECURSIVE PastLog(_)
\* The transport operations of the first k calls the caller has completed.
PastLog(k) == IF k = 0 THEN <<>> ELSE PastLog(k - 1) \o caller.past[k].log

\* The transport operations of the method so far, in order.
MethodLog == PastLog(Len(caller.past)) \o log

\* The writes and the reads of the method at the register of a feature.
WritesAt(name) ==
  {i \in 1..Len(MethodLog) :
     MethodLog[i].op = "write" /\ MethodLog[i].adress = Feature(name).adress}
ReadsAt(name) ==
  {i \in 1..Len(MethodLog) :
     MethodLog[i].op = "read" /\ MethodLog[i].adress = Feature(name).adress}

\* start_rotation has returned.
RotationReturned == RotationAt(5)

\* C16: start_rotation(speed=None) issues no write at the speed register,
\* which holds after the call what it held before; start_rotation with a
\* speed writes the speed register at most once, and once when it returns.
C16_SpeedInMemory ==
  caller.method = "start_rotation" =>
    /\ caller.speed = NoneValue =>
         /\ WritesAt("_speed") = {}
         /\ regs[Feature("_speed").adress] = FirstRegs[Feature("_speed").adress]
    /\ caller.speed # NoneValue =>
         /\ Cardinality(WritesAt("_speed")) <= 1
         /\ RotationReturned => Cardinality(WritesAt("_speed")) = 1

C16_Witness ==
  /\ RotationReturned
  /\ caller.speed = NoneValue
  /\ regs[Feature("_speed").adress] = MaxRaw
  /\ regs[Feature("_rotate").adress] = 1

\* C20: in start_rotation the write of 1 at the _rotate register is the
\* last write; before it "preset" (3) has been written at the reference
\* selection, and _unlocked has been read as non-zero or written to 1;
\* _unlocked is written (to 1) only after it has been read as 0; no run
\* order is written once a call has raised.
C20_RunOrderLast ==
  caller.method = "start_rotation" =>
    /\ \A i \in WritesAt("_rotate") :
         /\ MethodLog[i].raw = 1
         /\ \A j \in (i + 1)..Len(MethodLog) : MethodLog[j].op # "write"
         /\ \E j \in WritesAt("_reference_selection") :
              j < i /\ MethodLog[j].raw = 3
         /\ \/ \E j \in ReadsAt("_unlocked") : j < i /\ MethodLog[j].raw # 0
            \/ \E j \in WritesAt("_unlocked") : j < i /\ MethodLog[j].raw = 1
    /\ \A i \in WritesAt("_unlocked") :
         /\ MethodLog[i].raw = 1
         /\ \E j \in ReadsAt("_unlocked") : j < i /\ MethodLog[j].raw = 0
         /\ \A j \in ReadsAt("_unlocked") : j < i => MethodLog[j].raw = 0
    /\ Cardinality(WritesAt("_rotate")) <= 1
    /\ (result.kind = "raise" /\ cur.feat.name # "_rotate") =>
         WritesAt("_rotate") = {}
    /\ \A k \in 1..Len(caller.past) : caller.past[k].result.kind = "return"

C20_Witness ==
  /\ RotationReturned
  /\ WritesAt("_unlocked") # {}
  /\ WritesAt("_speed") # {}
  /\ WritesAt("_rotate") # {}
  /\ regs[Feature("_rotate").adress] = 1

\* The rate of the call counted in steps of 0.0125 Hz, and whether it is a
\* multiple of 0.025 Hz.
RateIndex == CHOOSE k \in DOMAIN RateTable : RateTable[k] = caller.speed.num
OnGrid == RateIndex % 2 = 0

\* get_target_rotation_rate has returned, after set_target_rotation_rate.
RateReturned ==
  /\ caller.method = "target_rotation_rate"
  /\ caller.pos = 2
  /\ pc = "done"
  /\ result.kind = "return"

\* C21: set_target_rotation_rate(r) writes to the speed register (address
\* 23) the raw value of 4 * r with one decimal, that is 40 * r (exactly for
\* a multiple of 0.025 Hz, else one of the two integers around it);
\* get_target_rotation_rate() returns the logical value of the speed
\* register divided by 4, that is raw / 40; on a device that stores the raw
\* value written, get after set of a multiple of 0.025 Hz returns that rate.
C21_RateRoundTrip ==
  caller.method = "target_rotation_rate" =>
    /\ caller.pos = 1 =>
         \A i \in OwnWrites :
           /\ log[i].adress = 23
           /\ log[i].raw \in {RateIndex \div 2, (RateIndex + 1) \div 2}
    /\ RateReturned =>
         /\ get_target_rotation_rate_return.num = DivInt(regs[23], 40)
         /\ (device = "stores" /\ OnGrid) =>
              /\ regs[23] = RateIndex \div 2
              /\ get_target_rotation_rate_return = caller.speed

C21_Witness ==
  /\ RateReturned
  /\ device = "stores"
  /\ caller.speed.num = DivInt(29, 40)
  /\ caller.past[1].regs0[23] # 29
  /\ regs[23] = 29
  /\ get_target_rotation_rate_return = caller.speed

\* example_linear_ramps has been called with steps >= 1 on a device that
\* stores the raw values written, and it has returned.
RampCalled ==
  /\ caller.ramp.at # ""
  /\ caller.ramp.steps >= 1
  /\ device = "stores"
RampReturned == RampAt({"lock"})

\* The writes of the method so far, in order.
MethodWrites ==
  SelectSeq(MethodLog, LAMBDA e : e.op = "write")

\* The last four writes of the method are those of stop_rotation ("preset",
\* 3, at the reference selection, then 0 at _rotate), of the restored speed
\* and of lock (0 at _unlocked).
RampLastWrites ==
  LET n == Len(MethodWrites)
      w(k, name, raw) ==
        /\ MethodWrites[k].adress = Feature(name).adress
        /\ MethodWrites[k].raw = raw
  IN  /\ n >= 4
      /\ w(n - 3, "_reference_selection", 3)
      /\ w(n - 2, "_rotate", 0)
      /\ w(n - 1, "_speed", FirstRegs[23])
      /\ w(n, "_unlocked", 0)

\* The writes before the last four: those of start_rotation, then one per
\* turn of the loops at the speed register.
RampUpdatesBefore ==
  \E k \in 1..(Len(MethodWrites) - 4) :
    /\ MethodWrites[k].adress = Feature("_rotate").adress
    /\ MethodWrites[k].raw = 1
    /\ \A j \in (k + 1)..(Len(MethodWrites) - 4) :
         MethodWrites[j].adress = 23
    /\ \A j \in 1..(k - 1) :
         MethodWrites[j].adress # Feature("_rotate").adress

\* C22: for steps >= 1 and duration > 0, on a device that stores the raw
\* values written, no call of example_linear_ramps raises, and when the
\* function has returned the _rotate register is 0, the _unlocked register
\* is 0 and the speed register holds the raw value it held at the call; the
\* last writes are those of the stop, then the restored speed, then the
\* lock, after every ramp update.
C22_RampEndsStopped ==
  RampCalled =>
    /\ result.kind # "raise"
    /\ caller.ramp.at # "raised"
    /\ RampReturned =>
         /\ regs[Feature("_rotate").adress] = 0
         /\ regs[Feature("_unlocked").adress] = 0
         /\ regs[23] = FirstRegs[23]
         /\ RampLastWrites
         /\ RampUpdatesBefore

C22_Witness ==
  /\ RampCalled
  /\ RampReturned
  /\ caller.ramp.steps = 3
  /\ caller.ramp.max_speed = 2
  /\ FirstRegs[23] = MaxRaw
  /\ FirstRegs[Feature("_unlocked").adress] = MaxRaw
  /\ Len(MethodWrites) = 3 + 3 + 4
  /\ regs[23] = MaxRaw

\* C23: for every steps >= 1, duration > 0 and max_speed >= 0, every rate
\* that example_linear_ramps commands from start_rotation until
\* stop_rotation (the speed of start_rotation and of each turn of the two
\* loops) lies between 0 and max_speed inclusive.
C23_RatesWithinMaxSpeed ==
  (caller.ramp.at \in {"start", "up", "down"} /\ caller.ramp.steps >= 1) =>
    /\ ~Less(caller.ramp.speed, Zero)
    /\ ~Less(FromInt(caller.ramp.max_speed), caller.ramp.speed)

====
